---- MODULE Spec2Model ----
(***************************************************************************)
(* Page-object wait helpers of the BackyardBirds UI test suite             *)
(* (pages/base_page.py, pages/backyards_page.py, pages/birds_page.py).     *)
(*                                                                         *)
(* One helper call runs at a time (the suite is single-threaded and        *)
(* blocking).  The application under test is the environment: it may       *)
(* change what the call's locator matches at any moment (UiChange).        *)
(* Time is counted in ticks; the clock only advances while a poll loop     *)
(* sleeps (backend queries are taken to answer instantly).                 *)
(*                                                                         *)
(* WebDriverWait(driver, timeout).until(method) is the polling loop every  *)
(* helper is built on:                                                     *)
(*     end_time = now + timeout                                            *)
(*     while True:                                                         *)
(*         value = method(driver); if value: return value                  *)
(*         if now > end_time: break                                        *)
(*         sleep(poll)                 -- poll = 0.5 s                     *)
(*     raise TimeoutException                                              *)
(***************************************************************************)
EXTENDS Integers, Sequences, FiniteSets, TLC

\* ------------------------------------------------------------------ bounds
\* Ticks per poll interval (one poll interval is 0.5 s).
PollTicks == 2
\* Largest number of elements a locator matches.
MaxCount == 3
\* Largest caller-supplied timeout, in ticks.
MaxTimeout == 4
\* The polls of one wait are counted up to PollCap, the queries of one
\* evaluation of its condition up to QueryCap.
PollCap == 3
QueryCap == 2
\* The queries of one wait's poll loop are counted up to TotalCap.
TotalCap == 5
\* Largest max_scrolls passed to scroll_to_element.
MaxScrolls == 2
\* Tests run in one pytest session.
MaxTests == 2
\* Largest match set of get_backyard_names, and largest y position.
MaxLen == 3
MaxY == 2

\* --------------------------------------------------------------- constants
\* BasePage.DEFAULT_TIMEOUT, in seconds.
DEFAULT_TIMEOUT == 10
\* Default of is_element_visible(locator, timeout=3), in seconds.
VISIBLE_TIMEOUT == 3
\* Default of wait_for_backyard_count / wait_for_bird_count /
\* wait_for_search_value (timeout=5), in seconds.
COUNT_TIMEOUT == 5

\* Seconds to ticks: a poll interval of 0.5 s is PollTicks ticks.
Secs(s) == s * 2 * PollTicks

\* The caller passed no timeout argument.
NoTimeout == -1

Timeouts == {NoTimeout} \cup (0..MaxTimeout)
Counts == 0..MaxCount
Values == {"", "Dove"}
ElemIds == {1, 2}

\* Helpers that resolve a locator through a BasePage wait.
BaseOps == {"wait_for_element", "wait_for_element_clickable",
            "wait_for_element_invisible", "is_element_visible", "tap",
            "get_text", "get_elements", "get_element_count"}
\* Helpers that poll a caller-defined condition.
CountOps == {"wait_for_backyard_count", "wait_for_bird_count"}
ValueOps == {"wait_for_search_value"}
Ops == BaseOps \cup CountOps \cup ValueOps \cup {"get_element_count_nowait"}

\* What the call's locator matches in the live UI: n elements, the first of
\* which is element id, displayed and enabled ("ok"), displayed but disabled,
\* or present but not displayed ("hidden"), with attribute value val.
NoMatch == [n |-> 0, id |-> 0, st |-> "hidden", val |-> ""]
UiStates == {NoMatch} \cup
            [n : 1..MaxCount, id : ElemIds, st : {"hidden", "disabled", "ok"},
             val : Values]

\* What a helper reads of the match set: its size ("n"), whether the first
\* element is displayed ("st") and enabled ("en"), its identity ("id"), its
\* value ("val").
Observes(op) ==
    CASE op \in {"wait_for_element", "wait_for_element_invisible"} -> {"st", "id"}
      [] op \in {"wait_for_element_clickable", "tap"} -> {"st", "en", "id"}
      [] op = "is_element_visible" -> {"st"}
      [] op \in {"get_text", "wait_for_search_value"} -> {"st", "id", "val"}
      [] OTHER -> {"n"}

\* The UI states that differ in something op reads (the rest of the UI is
\* left out: it cannot change what op does).
UiFor(op) ==
    {u \in UiStates :
        u.n > 0 =>
          /\ ("n" \notin Observes(op) => u.n = 1)
          /\ ("st" \notin Observes(op) => u.st = "ok")
          /\ ("en" \notin Observes(op) => u.st # "disabled")
          /\ ("id" \notin Observes(op) => u.id = 1)
          /\ ("val" \notin Observes(op) => u.val = "")}

VARIABLES ui, now, call, pc, frames, slp, result, el, resolved, cmds, ev, hist

\* get_backyard_names: the elements its locator matches, in the order the
\* backend returns them, each with its label and its location y; the list of
\* (y_pos, name) after the sort; and what the call returned.
VARIABLES elements, backyards_with_position, names

\* The page-object method in progress that is built from BasePage helpers
\* (scroll_to_element, clear_search_text, close_search,
\* tap_backyard_by_index): its argument, the passes of its loop so far, and
\* its outcome.
VARIABLES page

\* The pytest run (tests/conftest.py): the phase of the test in progress, the
\* outcome of each of its phases, its driver session, its failure screenshot,
\* the sessions open in all and the tests started so far.
VARIABLES run

\* The body of test_f8_dark_mode_basic: where it is, the statement of its
\* try block it is at, the appearance commands sent, the simulator's
\* appearance, and how the body ended.
VARIABLES f8

wvars == <<ui, now, call, pc, frames, slp, result, el, resolved, cmds, ev, hist>>
\* What the wait helpers leave alone.
nvars == <<elements, backyards_with_position, names, page, run, f8>>
vars == <<ui, now, call, pc, frames, slp, result, el, resolved, cmds, ev, hist,
          elements, backyards_with_position, names, page, run, f8>>

\* ------------------------------------------------- expected conditions
\* count_matches: current == expected_count, current the number of matches.
CountMatches_AtLeast(n, e) == n >= e

CountMatches(n, e) == n = e

\* One evaluation of an expected condition against the UI snapshot u.
Holds(cond, u, e) ==
    CASE cond = "visible"   -> u.n > 0 /\ u.st # "hidden"
      [] cond = "clickable" -> u.n > 0 /\ u.st = "ok"
      [] cond = "invisible" -> u.n = 0 \/ u.st = "hidden"
      [] cond = "present"   -> u.n > 0
      [] cond = "count"     -> CountMatches(u.n, e)
      [] OTHER              -> FALSE

\* The condition each BasePage helper waits for.
OpCond(op) ==
    CASE op \in {"wait_for_element", "is_element_visible", "get_text"} -> "visible"
      [] op \in {"wait_for_element_clickable", "tap"} -> "clickable"
      [] op = "wait_for_element_invisible" -> "invisible"
      [] op \in {"get_elements", "get_element_count"} -> "present"
      [] op = "wait_for_backyard_count" -> "count"
      [] op = "wait_for_bird_count" -> "birdcount"
      [] op = "wait_for_search_value" -> "searchvalue"
      [] OTHER -> "none"

\* Conditions whose evaluation is a single find_element(s) query.
Direct(cond) == cond \in {"visible", "clickable", "invisible", "present", "count"}

\* The state of the UI the caller is waiting for (what the wait's condition
\* is about), used to time the wait against the environment.
Wanted(c, u) ==
    CASE OpCond(c.op) = "birdcount"   -> u.n = c.expected
      [] OpCond(c.op) = "searchvalue" -> u.n > 0 /\ u.st # "hidden" /\ u.val = c.value
      [] OTHER -> Holds(OpCond(c.op), u, c.expected)

\* ------------------------------------------------------------ timeouts
OrDefault_NoneIsZero(t) == IF t = NoTimeout THEN 0 ELSE t

\* timeout = timeout or self.DEFAULT_TIMEOUT
OrDefault(t) == IF t = NoTimeout \/ t = 0 THEN Secs(DEFAULT_TIMEOUT) ELSE t

\* The timeout parameter a helper receives: the caller's, or the default of
\* the helper's signature.
Param(op, t) ==
    IF t # NoTimeout THEN t
    ELSE CASE op = "is_element_visible" -> Secs(VISIBLE_TIMEOUT)
           [] op \in CountOps \cup ValueOps -> Secs(COUNT_TIMEOUT)
           [] OTHER -> NoTimeout

\* The timeout handed to WebDriverWait by the helper.
WaitTimeout(op, t) ==
    IF op \in BaseOps THEN OrDefault(Param(op, t)) ELSE Param(op, t)

\* The timeout the caller asked for (for the timing of the wait).
Asked(c) == IF Param(c.op, c.timeout) = NoTimeout THEN Secs(DEFAULT_TIMEOUT)
            ELSE Param(c.op, c.timeout)

NewFrame(cond, timeout) == [cond |-> cond, timeout |-> timeout, end |-> now + timeout]

\* --------------------------------------------------------------- history
\* held: ticks the wanted condition has held without a break (-1: it does
\* not hold now), counted up to PollTicks + 1; inT: it began to hold at a time
\* <= the asked timeout; ever: it held at some moment of the wait; broke: it
\* failed to hold at some moment of the wait.
HistAt(c, u, t, h) ==
    IF Wanted(c, u)
    THEN IF h.held >= 0 THEN [h EXCEPT !.ever = TRUE]
         ELSE [held |-> 0, inT |-> t <= Asked(c), ever |-> TRUE, broke |-> h.broke]
    ELSE [held |-> -1, inT |-> FALSE, ever |-> h.ever, broke |-> TRUE]

HistTick(h) ==
    IF h.held >= 0 /\ h.held <= PollTicks THEN [h EXCEPT !.held = h.held + 1] ELSE h

NoHist == [held |-> -1, inT |-> FALSE, ever |-> FALSE, broke |-> FALSE]
\* Counters that stop at their cap.
Count(k, cap) == IF k < cap THEN k + 1 ELSE cap

\* What the running call has done so far: q queries in the current evaluation
\* of its condition, slept inside that evaluation, n polls, the count obs
\* observed by the last poll, and whether a query of the call failed with a
\* backend error of its own (fault), and whether the UI changed between the
\* resolved wait and the command or query that follows it (raced).
\* total: the queries issued so far by the call's poll loop, the queries of
\* its condition's evaluations included.
NoEv == [q |-> 0, slept |-> FALSE, n |-> 0, obs |-> 0, fault |-> FALSE,
         raced |-> FALSE, total |-> 0]

\* A helper's outcome: what it returned or raised.
NoResult == [kind |-> "none", type |-> "none", val |-> 0, txt |-> ""]
RetBool(b) == [kind |-> "return", type |-> "bool", val |-> IF b THEN 1 ELSE 0, txt |-> ""]
RetInt(k) == [kind |-> "return", type |-> "int", val |-> k, txt |-> ""]
RetElem(id) == [kind |-> "return", type |-> "element", val |-> id, txt |-> ""]
RetList(k) == [kind |-> "return", type |-> "list", val |-> k, txt |-> ""]
RetText(s) == [kind |-> "return", type |-> "text", val |-> 0, txt |-> s]
RetNone == [kind |-> "return", type |-> "None", val |-> 0, txt |-> ""]
Raise(exc) == [kind |-> "raise", type |-> exc, val |-> 0, txt |-> ""]

NoCall == [op |-> "none", timeout |-> NoTimeout, expected |-> 0, value |-> ""]

\* get_backyard_names has not been called / returned list / raised.
NoNames == [kind |-> "none", list |-> <<>>]

\* No screenshot; no test in progress.
NoShot == [taken |-> FALSE, name |-> "", suffix |-> "", session |-> "none"]
NoRun == [phase |-> "idle", test |-> "none", uses |-> FALSE, setup |-> "none",
          callr |-> "none", tear |-> "none", session |-> "none",
          shot |-> NoShot, open |-> 0, k |-> 0]

\* test_f8_dark_mode_basic is not running.
NoF8 == [at |-> "idle", step |-> 0, log |-> <<>>, appearance |-> "light",
         outcome |-> "none"]

\* No page-object method is in progress.
NoPage == [op |-> "none", arg |-> 0, scrolls |-> 0, st |-> "idle", res |-> NoResult]

TypeOK ==
    /\ ui \in UiStates
    /\ now \in Nat
    /\ pc \in {"idle", "poll", "sleep", "inner_act", "act", "done"}
    /\ Len(frames) <= 2
    /\ slp \in 0..PollTicks
    /\ resolved \in BOOLEAN
    /\ Len(cmds) <= 2

Init ==
    /\ ui = NoMatch
    /\ now = 0
    /\ call = NoCall
    /\ pc = "idle"
    /\ frames = <<>>
    /\ slp = 0
    /\ result = NoResult
    /\ el = 0
    /\ resolved = FALSE
    /\ cmds = <<>>
    /\ ev = NoEv
    /\ hist = NoHist
    /\ elements = <<>>
    /\ backyards_with_position = <<>>
    /\ names = NoNames
    /\ page = NoPage
    /\ run = NoRun
    /\ f8 = NoF8

\* ------------------------------------------------------------ outcomes
Finish(res) ==
    /\ pc' = "done"
    /\ result' = res
    /\ frames' = <<>>
    /\ slp' = 0

\* time.sleep(self._poll) of WebDriverWait.until
Sleep(fs) ==
    /\ pc' = "sleep"
    /\ slp' = PollTicks
    /\ frames' = fs
    /\ UNCHANGED result

\* One pass of WebDriverWait.until's loop body over the frame f, the
\* condition having evaluated to v: "ok" (return the value), "timeout"
\* (raise TimeoutException) or "sleep" (sleep and evaluate again).
UntilStep(f, v) ==
    IF v THEN "ok" ELSE IF now > f.end THEN "timeout" ELSE "sleep"

BaseResolved_ProbeFalse(op, u) ==
    CASE op \in {"wait_for_element", "wait_for_element_clickable"} ->
            Finish(RetElem(u.id))
      [] op = "wait_for_element_invisible" ->
            Finish(IF u.n = 0 THEN RetBool(TRUE) ELSE RetElem(u.id))
      [] op = "is_element_visible" -> Finish(RetBool(FALSE))
      [] OTHER ->
            /\ pc' = "act" /\ frames' = <<>> /\ slp' = 0 /\ UNCHANGED result

\* The wait of a BasePage helper resolved against the snapshot u.
BaseResolved(op, u) ==
    CASE op \in {"wait_for_element", "wait_for_element_clickable"} ->
            Finish(RetElem(u.id))
      [] op = "wait_for_element_invisible" ->
            \* invisibility_of_element_located: True when nothing matches,
            \* the hidden element itself otherwise
            Finish(IF u.n = 0 THEN RetBool(TRUE) ELSE RetElem(u.id))
      [] op = "is_element_visible" -> Finish(RetBool(TRUE))
      [] OTHER -> \* tap, get_text, get_elements, get_element_count go on
            /\ pc' = "act" /\ frames' = <<>> /\ slp' = 0 /\ UNCHANGED result

BaseTimedOut_CountRaises(op) ==
    CASE op = "is_element_visible" -> Finish(RetBool(FALSE))
      [] OTHER -> Finish(Raise("TimeoutException"))

BaseTimedOut_NoCatch(op) ==
    CASE op = "get_element_count"  -> Finish(RetInt(0))
      [] OTHER -> Finish(Raise("TimeoutException"))

BaseTimedOut_Swallow(op) ==
    CASE op = "is_element_visible" -> Finish(RetBool(FALSE))
      [] op = "get_element_count"  -> Finish(RetInt(0))
      [] OTHER -> Finish(RetNone)

BaseTimedOut_TapAnyway(op) ==
    CASE op = "is_element_visible" -> Finish(RetBool(FALSE))
      [] op = "get_element_count"  -> Finish(RetInt(0))
      [] op = "tap" -> /\ pc' = "act" /\ frames' = <<>> /\ slp' = 0
                       /\ UNCHANGED result
      [] OTHER -> Finish(Raise("TimeoutException"))

\* The wait of a BasePage helper raised TimeoutException.
BaseTimedOut(op) ==
    CASE op = "is_element_visible" -> Finish(RetBool(FALSE))
      [] op = "get_element_count"  -> Finish(RetInt(0))
      [] OTHER -> Finish(Raise("TimeoutException"))

NoWaitCount_RaiseOnEmpty(u) ==
    IF u.n = 0 THEN Raise("TimeoutException") ELSE RetInt(u.n)

\* get_element_count(wait=False): return len(self.driver.find_elements(...))
NoWaitCount(u) == RetInt(u.n)

\* ------------------------------------------------------------- actions
\* A test calls helper op with timeout t (NoTimeout: none passed).
Call(op, t, e, s) ==
    /\ pc = "idle"
    /\ call' = [op |-> op, timeout |-> t, expected |-> e, value |-> s]
    /\ now' = 0
    /\ el' = 0
    /\ resolved' = FALSE
    /\ cmds' = <<>>
    /\ ui' \in UiFor(op)
    /\ hist' = HistAt(call', ui', 0, NoHist)
    /\ IF op = "get_element_count_nowait"
       THEN \* get_element_count(wait=False): len(find_elements(...))
            /\ Finish(NoWaitCount(ui'))
            /\ ev' = [NoEv EXCEPT !.q = 1, !.obs = ui'.n]
       ELSE /\ pc' = "poll"
            /\ frames' = <<[cond |-> OpCond(op), timeout |-> WaitTimeout(op, t),
                            end |-> WaitTimeout(op, t)]>>
            /\ slp' = 0
            /\ result' = NoResult
            /\ ev' = NoEv
    /\ UNCHANGED nvars

\* The poll loop of a helper evaluates a condition that is one query.
PollOuter ==
    /\ pc = "poll" /\ Len(frames) = 1 /\ Direct(frames[1].cond)
    /\ LET f == frames[1]
           v == Holds(f.cond, ui, call.expected)
           step == UntilStep(f, v)
       IN /\ ev' = [NoEv EXCEPT !.q = 1, !.n = Count(ev.n, PollCap),
                                 !.obs = IF f.cond = "count" THEN ui.n ELSE 0,
                                 !.total = Count(ev.total, TotalCap)]
          /\ resolved' = v
          /\ el' = IF v THEN ui.id ELSE el
          /\ CASE step = "ok" ->
                    IF call.op \in BaseOps THEN BaseResolved(call.op, ui)
                    ELSE Finish(RetBool(TRUE))
               [] step = "timeout" ->
                    IF call.op \in BaseOps THEN BaseTimedOut(call.op)
                    ELSE Finish(Raise("TimeoutException"))
               [] OTHER -> Sleep(frames)
    /\ UNCHANGED <<ui, now, call, cmds, hist>>
    /\ UNCHANGED nvars

\* The poll loop evaluates count_matches / value_matches, which call
\* get_bird_count -> get_bird_names -> get_elements(BIRD_NAMES), or
\* get_search_value -> wait_for_element(search field): a wait of its own,
\* with no timeout passed.
EvalCall ==
    /\ pc = "poll" /\ Len(frames) = 1 /\ ~Direct(frames[1].cond)
    /\ LET inner == IF frames[1].cond = "birdcount" THEN "present" ELSE "visible"
       IN frames' = Append(frames, NewFrame(inner, OrDefault(NoTimeout)))
    /\ ev' = [ev EXCEPT !.q = 0, !.slept = FALSE]
    /\ UNCHANGED <<ui, now, call, pc, slp, result, el, resolved, cmds, hist>>
    /\ UNCHANGED nvars

\* count_matches / value_matches returned v to the outer poll loop, having
\* observed obs, after k more queries (q in all).
CondValue(v, obs, q, k) ==
    /\ ev' = [ev EXCEPT !.n = Count(@, PollCap), !.obs = obs, !.q = q,
                        !.total = IF k > 0 THEN Count(@, TotalCap) ELSE @]
    /\ resolved' = v
    /\ LET step == UntilStep(frames[1], v)
       IN CASE step = "ok" -> Finish(RetBool(TRUE))
            [] step = "timeout" -> Finish(Raise("TimeoutException"))
            [] OTHER -> Sleep(<<frames[1]>>)

\* One pass of the wait inside count_matches / value_matches.
PollInner ==
    /\ pc = "poll" /\ Len(frames) = 2
    /\ LET f == frames[2]
           step == UntilStep(f, Holds(f.cond, ui, 0))
       IN CASE step = "ok" ->
                 /\ pc' = "inner_act"
                 /\ frames' = <<frames[1]>>
                 /\ slp' = 0
                 /\ el' = ui.id
                 /\ ev' = [ev EXCEPT !.q = Count(@, QueryCap),
                                     !.total = Count(@, TotalCap)]
                 /\ UNCHANGED <<result, resolved>>
            [] step = "timeout" ->
                 IF frames[1].cond = "birdcount"
                 THEN \* get_bird_count: except: return 0
                      /\ CondValue(CountMatches(0, call.expected), 0,
                                   Count(ev.q, QueryCap), 1)
                      /\ UNCHANGED el
                 ELSE \* get_search_value lets the TimeoutException out, and
                      \* so does the outer until
                      /\ Finish(Raise("TimeoutException"))
                      /\ ev' = [ev EXCEPT !.q = Count(@, QueryCap),
                                           !.n = Count(@, PollCap),
                                           !.total = Count(@, TotalCap)]
                      /\ UNCHANGED <<el, resolved>>
            [] OTHER ->
                 /\ Sleep(frames)
                 /\ ev' = [ev EXCEPT !.q = Count(@, QueryCap),
                                     !.total = Count(@, TotalCap)]
                 /\ UNCHANGED <<el, resolved>>
    /\ UNCHANGED <<ui, now, call, cmds, hist>>
    /\ UNCHANGED nvars

\* After the inner wait: find_elements and len (get_bird_count), or
\* get_attribute("value") of the resolved search field (get_search_value).
InnerAct ==
    /\ pc = "inner_act"
    /\ IF frames[1].cond = "birdcount"
       THEN CondValue(CountMatches(ui.n, call.expected), 0, Count(ev.q, QueryCap), 1)
       ELSE IF ui.n > 0 /\ ui.id = el
            THEN CondValue(ui.val = call.value, 0, ev.q, 0)
            ELSE /\ Finish(Raise("StaleElementReferenceException"))
                 /\ ev' = [ev EXCEPT !.n = Count(@, PollCap)]
                 /\ UNCHANGED resolved
    /\ UNCHANGED <<ui, now, call, el, cmds, hist>>
    /\ UNCHANGED nvars

Act_ClickTwice ==
    /\ pc = "act"
    /\ IF call.op = "tap" /\ cmds = <<>>
       THEN /\ cmds' = Append(cmds, [cmd |-> "click", el |-> el, at |-> now])
            /\ UNCHANGED <<pc, frames, slp, result>>
       ELSE /\ cmds' = IF call.op = "tap"
                       THEN Append(cmds, [cmd |-> "click", el |-> el, at |-> now])
                       ELSE cmds
            /\ Finish(RetNone)
    /\ UNCHANGED <<ui, now, call, el, resolved, ev, hist>>
    /\ UNCHANGED nvars

Act_TapSkipsClick ==
    /\ pc = "act"
    /\ CASE call.op = "tap" -> Finish(RetNone)
         [] call.op = "get_text" -> Finish(RetText(ui.val))
         [] call.op = "get_elements" -> Finish(RetList(ui.n))
         [] OTHER -> Finish(RetInt(ui.n))
    /\ UNCHANGED <<ui, now, call, el, resolved, cmds, ev, hist>>
    /\ UNCHANGED nvars

Act_ListOfTheWait ==
    /\ pc = "act"
    /\ CASE call.op = "tap" ->
              /\ cmds' = Append(cmds, [cmd |-> "click", el |-> el, at |-> now])
              /\ Finish(RetNone)
         [] call.op = "get_text" -> Finish(RetText(ui.val)) /\ UNCHANGED cmds
         [] call.op = "get_elements" -> Finish(RetList(1)) /\ UNCHANGED cmds
         [] OTHER -> Finish(RetInt(ui.n)) /\ UNCHANGED cmds
    /\ UNCHANGED <<ui, now, call, el, resolved, ev, hist>>
    /\ UNCHANGED nvars

\* What tap, get_text, get_elements and get_element_count do once their wait
\* has resolved.
Act ==
    /\ pc = "act"
    /\ LET stale == ~(ui.n > 0 /\ ui.id = el)
       IN CASE call.op = "tap" ->
                 /\ cmds' = Append(cmds, [cmd |-> "click", el |-> el, at |-> now])
                 /\ Finish(IF stale THEN Raise("StaleElementReferenceException")
                           ELSE RetNone)
            [] call.op = "get_text" ->
                 /\ Finish(IF stale THEN Raise("StaleElementReferenceException")
                           ELSE RetText(ui.val))
                 /\ UNCHANGED cmds
            [] call.op = "get_elements" ->
                 /\ Finish(RetList(ui.n))
                 /\ UNCHANGED cmds
            [] OTHER -> \* get_element_count: len(elements)
                 /\ Finish(RetInt(ui.n))
                 /\ UNCHANGED cmds
    /\ UNCHANGED <<ui, now, call, el, resolved, ev, hist>>
    /\ UNCHANGED nvars

\* A tick of the clock passes while the poll loop sleeps.
Tick ==
    /\ pc = "sleep"
    /\ now' = now + 1
    /\ slp' = slp - 1
    /\ pc' = IF slp = 1 THEN "poll" ELSE "sleep"
    /\ hist' = HistTick(hist)
    /\ ev' = IF Len(frames) = 2 THEN [ev EXCEPT !.slept = TRUE] ELSE ev
    /\ UNCHANGED <<ui, call, frames, result, el, resolved, cmds>>
    /\ UNCHANGED nvars

\* The application changes what the locator matches.
UiChange ==
    /\ pc \in {"poll", "sleep", "inner_act", "act"}
    /\ ui' \in UiFor(call.op) \ {ui}
    /\ hist' = IF pc = "act" THEN hist ELSE HistAt(call, ui', now, hist)
    /\ ev' = IF pc = "act" THEN [ev EXCEPT !.raced = TRUE] ELSE ev
    /\ UNCHANGED <<now, call, pc, frames, slp, result, el, resolved, cmds>>
    /\ UNCHANGED nvars

\* The helper has returned to the test; a wait carries no state across calls.
Return ==
    /\ pc = "done"
    /\ pc' = "idle"
    /\ ui' = NoMatch
    /\ now' = 0
    /\ call' = NoCall
    /\ result' = NoResult
    /\ el' = 0
    /\ resolved' = FALSE
    /\ cmds' = <<>>
    /\ ev' = NoEv
    /\ hist' = NoHist
    /\ UNCHANGED <<frames, slp>>
    /\ UNCHANGED nvars

Next ==
    \/ \E op \in BaseOps \cup {"get_element_count_nowait"}, t \in Timeouts :
          Call(op, t, 0, "")
    \/ \E op \in CountOps, t \in Timeouts, e \in Counts : Call(op, t, e, "")
    \/ \E op \in ValueOps, t \in Timeouts, s \in Values : Call(op, t, 0, s)
    \/ PollOuter
    \/ EvalCall
    \/ PollInner
    \/ InnerAct
    \/ Act
    \/ Tick
    \/ UiChange
    \/ Return

Spec == Init /\ [][Next]_vars

\* ------------------------------------------------------ backend failures
\* A query may fail with an error of the backend itself (WebDriverException:
\* session lost, server error).  WebDriverWait.until ignores only
\* NoSuchElementException, and the helpers' handlers name TimeoutException,
\* so the error leaves the helper; get_bird_count alone has a bare except.
BackendError == Raise("WebDriverException")

\* The query of a BasePage poll, or of wait_for_backyard_count's
\* count_matches, fails.
FailOuter ==
    /\ pc = "poll" /\ Len(frames) = 1 /\ Direct(frames[1].cond)
    /\ Finish(BackendError)
    /\ ev' = [NoEv EXCEPT !.q = 1, !.n = Count(ev.n, PollCap), !.fault = TRUE]
    /\ UNCHANGED <<ui, now, call, el, resolved, cmds, hist>>
    /\ UNCHANGED nvars

\* A query inside count_matches / value_matches fails: in the wait of
\* get_elements / wait_for_element, or in find_elements / get_attribute after
\* it.  get_bird_count: except: return 0; get_search_value has no handler.
FailInner ==
    /\ \/ pc = "poll" /\ Len(frames) = 2
       \/ pc = "inner_act"
    /\ IF frames[1].cond = "birdcount"
       THEN /\ resolved' = CountMatches(0, call.expected)
            /\ ev' = [ev EXCEPT !.n = Count(@, PollCap), !.obs = 0,
                                !.q = Count(@, QueryCap), !.fault = TRUE]
            /\ LET step == UntilStep(frames[1], CountMatches(0, call.expected))
               IN CASE step = "ok" -> Finish(RetBool(TRUE))
                    [] step = "timeout" -> Finish(Raise("TimeoutException"))
                    [] OTHER -> Sleep(<<frames[1]>>)
       ELSE /\ Finish(BackendError)
            /\ ev' = [ev EXCEPT !.n = Count(@, PollCap), !.q = Count(@, QueryCap),
                                !.fault = TRUE]
            /\ UNCHANGED resolved
    /\ UNCHANGED <<ui, now, call, el, cmds, hist>>
    /\ UNCHANGED nvars

\* The command after a resolved wait fails: click, .text, find_elements.
FailAct ==
    /\ pc = "act"
    /\ Finish(BackendError)
    /\ ev' = [ev EXCEPT !.fault = TRUE]
    /\ cmds' = IF call.op = "tap"
               THEN Append(cmds, [cmd |-> "click", el |-> el, at |-> now])
               ELSE cmds
    /\ UNCHANGED <<ui, now, call, el, resolved, hist>>
    /\ UNCHANGED nvars

\* The single query of get_element_count(wait=False) fails.
FailNoWait ==
    /\ pc = "idle"
    /\ call' = [NoCall EXCEPT !.op = "get_element_count_nowait"]
    /\ ui' \in UiFor("get_element_count_nowait")
    /\ hist' = HistAt(call', ui', 0, NoHist)
    /\ Finish(BackendError)
    /\ ev' = [NoEv EXCEPT !.q = 1, !.fault = TRUE]
    /\ UNCHANGED <<now, el, resolved, cmds>>
    /\ UNCHANGED nvars

NextFault ==
    \/ Next
    \/ FailOuter
    \/ FailInner
    \/ FailAct
    \/ FailNoWait

\* The helpers against a backend whose queries may fail.
SpecFault == Init /\ [][NextFault]_vars

\* ------------------------------------------------ the repository's calls
\* The helpers the page objects and tests call (wait_for_element_invisible
\* has no caller).
RepoOps == Ops \ {"wait_for_element_invisible"}

\* The timeouts the page objects and tests pass to each helper: none, or the
\* literals and wrapper defaults 1, 2, 3, 5 and 10 s.  No call passes a poll
\* frequency, so every wait polls at WebDriverWait's 0.5 s.
RepoTimeouts(op) ==
    CASE op = "is_element_visible" ->
            {NoTimeout, Secs(1), Secs(2), Secs(3), Secs(5), Secs(10)}
      [] op = "wait_for_element" -> {NoTimeout, Secs(5)}
      [] OTHER -> {NoTimeout}

NextRepo ==
    \/ \E op \in RepoOps \ (CountOps \cup ValueOps) :
          \E t \in RepoTimeouts(op) : Call(op, t, 0, "")
    \/ \E op \in CountOps, e \in Counts : Call(op, NoTimeout, e, "")
    \/ \E op \in ValueOps, s \in Values : Call(op, NoTimeout, 0, s)
    \/ PollOuter
    \/ EvalCall
    \/ PollInner
    \/ InnerAct
    \/ Act
    \/ Tick
    \/ UiChange
    \/ Return

\* The helpers called as the repository calls them.
SpecRepo == Init /\ [][NextRepo]_vars

\* ---------------------------------------------------- page-object methods
\* Methods that call BasePage helpers one after another.
SearchButtonOps == {"clear_search_text", "close_search"}
PageOps == {"scroll_to_element", "tap_backyard_by_index"} \cup SearchButtonOps

\* The arguments tried: max_scrolls, or the index into the cells.
PageArgs(op) ==
    CASE op = "scroll_to_element" -> 0..MaxScrolls
      [] op = "tap_backyard_by_index" -> (0 - MaxCount - 1)..(MaxCount + 1)
      [] OTHER -> {0}

\* The method calls BasePage helper op with timeout t (NoTimeout: none).
Begin(op, t) ==
    /\ call' = [op |-> op, timeout |-> t, expected |-> 0, value |-> ""]
    /\ now' = 0
    /\ el' = 0
    /\ resolved' = FALSE
    /\ ui' \in UiFor(op)
    /\ hist' = HistAt(call', ui', 0, NoHist)
    /\ pc' = "poll"
    /\ frames' = <<[cond |-> OpCond(op), timeout |-> WaitTimeout(op, t),
                    end |-> WaitTimeout(op, t)]>>
    /\ slp' = 0
    /\ result' = NoResult
    /\ ev' = NoEv

\* The method makes no helper call in this step.
NoBegin == UNCHANGED <<ui, now, call, pc, frames, slp, result, el, resolved, ev, hist>>

\* The method returns or raises res.
PageFinish(res) == page' = [page EXCEPT !.st = "done", !.res = res]

\* self.driver.swipe(...) of scroll_down
Swipe == [cmd |-> "swipe", el |-> 0, at |-> 0]

\* range(max_scrolls) has another pass after k passes.
MorePasses_OneMore(k, max) == k <= max

MorePasses(k, max) == k < max

\* A test calls the page-object method op with argument arg.
PageCall(op, arg) ==
    /\ pc = "idle" /\ page.st = "idle"
    /\ cmds' = <<>>
    /\ CASE op = "scroll_to_element" ->
              IF MorePasses(0, arg)
              THEN /\ page' = [NoPage EXCEPT !.op = op, !.arg = arg, !.st = "running"]
                   /\ Begin("is_element_visible", Secs(2))
              ELSE \* the loop body never runs
                   /\ page' = [NoPage EXCEPT !.op = op, !.arg = arg, !.st = "done",
                                             !.res = Raise("TimeoutException")]
                   /\ NoBegin
         [] op \in SearchButtonOps ->
              /\ page' = [NoPage EXCEPT !.op = op, !.arg = arg, !.st = "running"]
              /\ Begin("is_element_visible", Secs(2))
         [] OTHER -> \* tap_backyard_by_index: cells = self.get_backyard_cells()
              /\ page' = [NoPage EXCEPT !.op = op, !.arg = arg, !.st = "running"]
              /\ Begin("get_elements", NoTimeout)
    /\ UNCHANGED <<elements, backyards_with_position, names, run, f8>>

\* scroll_to_element goes on after is_element_visible(locator, timeout=2) or
\* wait_for_element(locator) has come back.
ScrollStep ==
    /\ pc = "done" /\ page.st = "running" /\ page.op = "scroll_to_element"
    /\ IF call.op = "wait_for_element"
       THEN \* return self.wait_for_element(locator)
            /\ PageFinish(result) /\ NoBegin /\ UNCHANGED cmds
       ELSE IF result = RetBool(TRUE)
            THEN /\ Begin("wait_for_element", NoTimeout)
                 /\ UNCHANGED <<page, cmds>>
            ELSE \* self.scroll_down(), then the next pass of the loop
                 /\ cmds' = Append(cmds, Swipe)
                 /\ IF MorePasses(page.scrolls + 1, page.arg)
                    THEN /\ page' = [page EXCEPT !.scrolls = @ + 1]
                         /\ Begin("is_element_visible", Secs(2))
                    ELSE \* raise TimeoutException(...), on the screen the
                         \* last swipe has brought up
                         /\ page' = [page EXCEPT !.scrolls = @ + 1, !.st = "done",
                                                 !.res = Raise("TimeoutException")]
                         /\ ui' \in UiFor("is_element_visible")
                         /\ UNCHANGED <<now, call, pc, frames, slp, result, el,
                                        resolved, ev, hist>>
    /\ UNCHANGED <<elements, backyards_with_position, names, run, f8>>

\* clear_search_text / close_search go on after
\* is_element_visible(button, timeout=2) or tap(button) has come back.
SearchButtonStep ==
    /\ pc = "done" /\ page.st = "running" /\ page.op \in SearchButtonOps
    /\ IF call.op = "tap"
       THEN PageFinish(result) /\ NoBegin
       ELSE IF result = RetBool(TRUE)
            THEN Begin("tap", NoTimeout) /\ UNCHANGED page
            ELSE PageFinish(RetNone) /\ NoBegin
    /\ UNCHANGED <<cmds, elements, backyards_with_position, names, run, f8>>

\* cells[index] of a Python list of n cells: the position it denotes, or -1
\* when it raises IndexError (a negative index counts from the end).
ListIndex(index, n) ==
    IF 0 <= index /\ index < n THEN index
    ELSE IF index < 0 /\ index + n >= 0 THEN index + n
    ELSE 0 - 1

\* tap_backyard_by_index goes on after get_backyard_cells() has come back.
IndexStep ==
    /\ pc = "done" /\ page.st = "running" /\ page.op = "tap_backyard_by_index"
    /\ IF result.kind = "raise"
       THEN PageFinish(result) /\ UNCHANGED cmds
       ELSE IF page.arg < result.val /\ ListIndex(page.arg, result.val) >= 0
            THEN \* cells[index].click()
                 /\ cmds' = Append(cmds, [cmd |-> "click",
                                          el |-> ListIndex(page.arg, result.val),
                                          at |-> now])
                 /\ PageFinish(RetNone)
            ELSE /\ PageFinish(Raise("IndexError"))
                 /\ UNCHANGED cmds
    /\ NoBegin
    /\ UNCHANGED <<elements, backyards_with_position, names, run, f8>>

\* A page-object method has returned to the test.
PageReturn ==
    /\ page.st = "done"
    /\ page' = NoPage
    /\ pc' = "idle" /\ ui' = NoMatch /\ now' = 0 /\ call' = NoCall
    /\ frames' = <<>> /\ slp' = 0 /\ result' = NoResult /\ el' = 0
    /\ resolved' = FALSE /\ cmds' = <<>> /\ ev' = NoEv /\ hist' = NoHist
    /\ UNCHANGED <<elements, backyards_with_position, names, run, f8>>

NextPages ==
    \/ \E op \in PageOps : \E arg \in PageArgs(op) : PageCall(op, arg)
    \/ ScrollStep
    \/ SearchButtonStep
    \/ IndexStep
    \/ PageReturn
    \/ PollOuter
    \/ Act
    \/ Tick
    \/ UiChange

\* The page-object methods, run one at a time.
SpecPages == Init /\ [][NextPages]_vars

\* The steps the test process itself takes: a sleep runs out, a poll or a
\* command is carried out, a method goes on after a helper has come back.
ProgramStep ==
    \/ PollOuter
    \/ Act
    \/ Tick
    \/ ScrollStep
    \/ SearchButtonStep
    \/ IndexStep

\* The same with a test process that keeps running (the backend answers every
\* query and the clock advances); the application may still change the
\* screen at any moment, or never.
SpecPagesLive == SpecPages /\ WF_vars(ProgramStep)

\* ------------------------------------------------------- the pytest run
Tests == {"test_f8_dark_mode_basic", "test_f12_screenshot_on_failure"}

ShouldCapture_AnyOutcome(when, failed, driver) == when = "call" /\ driver

ShouldCapture_AnyPhase(when, failed, driver) == failed /\ driver

\* if report.when == "call" and report.failed: ... if driver:
ShouldCapture(when, failed, driver) == when = "call" /\ failed /\ driver

RunsFinalizer_OnPass(yielded, outcome) == yielded /\ outcome = "passed"

\* The code after the fixture's yield runs at teardown whenever the fixture
\* reached its yield, whatever the test's outcome.
RunsFinalizer(yielded, outcome) == yielded

\* item.funcargs.get("driver"): set once the fixture has yielded.
Driver(r) == r.uses /\ r.setup = "passed"

\* pytest starts the next test, which does or does not ask for the driver
\* fixture.
StartTest(t, u) ==
    /\ run.phase = "idle" /\ run.k < MaxTests
    /\ run' = [NoRun EXCEPT !.phase = "setup", !.test = t, !.uses = u,
                            !.open = run.open, !.k = run.k + 1]
    /\ UNCHANGED <<wvars, elements, backyards_with_position, names, page, f8>>

\* Setup phase: the driver fixture up to its yield.  webdriver.Remote opens
\* the session, or raises and the setup fails.
SetupPhase ==
    /\ run.phase = "setup"
    /\ \/ run' = [run EXCEPT !.phase = "report_setup", !.setup = "passed",
                             !.session = IF run.uses THEN "open" ELSE "none",
                             !.open = IF run.uses THEN @ + 1 ELSE @]
       \/ /\ run.uses
          /\ run' = [run EXCEPT !.phase = "report_setup", !.setup = "failed"]
    /\ UNCHANGED <<wvars, elements, backyards_with_position, names, page, f8>>

\* Call phase: the test body passes, fails or skips.
CallPhase(outcome) ==
    /\ run.phase = "call"
    /\ run' = [run EXCEPT !.phase = "report_call", !.callr = outcome]
    /\ UNCHANGED <<wvars, elements, backyards_with_position, names, page, f8>>

\* Teardown phase: the driver fixture after its yield, app_driver.quit(),
\* which may itself raise.
TeardownPhase ==
    /\ run.phase = "teardown"
    /\ IF RunsFinalizer(Driver(run), run.callr)
       THEN \E r \in {"passed", "failed"} :
               run' = [run EXCEPT !.phase = "report_teardown", !.tear = r,
                                  !.session = "quit", !.open = @ - 1]
       ELSE run' = [run EXCEPT !.phase = "report_teardown", !.tear = "passed"]
    /\ UNCHANGED <<wvars, elements, backyards_with_position, names, page, f8>>

\* pytest_runtest_makereport, called with the report of each phase; then the
\* next phase (no call phase after a failed setup).
MakeReport ==
    /\ run.phase \in {"report_setup", "report_call", "report_teardown"}
    /\ LET when == CASE run.phase = "report_setup" -> "setup"
                     [] run.phase = "report_call" -> "call"
                     [] OTHER -> "teardown"
           failed == CASE when = "setup" -> run.setup = "failed"
                       [] when = "call" -> run.callr = "failed"
                       [] OTHER -> run.tear = "failed"
           next == CASE when = "setup" ->
                          IF run.setup = "passed" THEN "call" ELSE "teardown"
                     [] when = "call" -> "teardown"
                     [] OTHER -> "idle"
       IN run' = [run EXCEPT
                    !.phase = next,
                    !.shot = IF ShouldCapture(when, failed, Driver(run))
                             THEN \* driver.save_screenshot(<item.name>_failure.png)
                                  [taken |-> TRUE, name |-> run.test,
                                   suffix |-> "_failure.png",
                                   session |-> run.session]
                             ELSE @]
    /\ UNCHANGED <<wvars, elements, backyards_with_position, names, page, f8>>

NextRun ==
    \/ \E t \in Tests, u \in BOOLEAN : StartTest(t, u)
    \/ SetupPhase
    \/ \E outcome \in {"passed", "failed", "skipped"} : CallPhase(outcome)
    \/ MakeReport
    \/ TeardownPhase

\* A sequential pytest run; pytest carries every phase it starts through.
SpecRun == Init /\ [][NextRun]_vars /\ WF_vars(NextRun)

\* ------------------------------------------------ test_f8_dark_mode_basic
\* The statements of the try block after the appearance command.
F8Body == <<"is_page_loaded", "get_backyard_count", "is_search_bar_visible",
            "tap_first_backyard", "detail_page.is_page_loaded",
            "is_back_button_visible", "is_favorite_button_visible",
            "is_food_button_visible", "is_water_button_visible">>

RunsFinally_OnPass(outcome) == outcome = "passed"

\* try: ... finally: the finally block runs however the try block ends.
RunsFinally(outcome) == TRUE

\* Where the body goes when its try block has ended with outcome.
AfterTry(outcome) == IF RunsFinally(outcome) THEN "finally" ELSE "done"

\* The call phase of the test begins: the page objects are built and the try
\* block is entered, on the simulator as the tests before have left it.
F8Start ==
    /\ run.phase = "call" /\ run.test = "test_f8_dark_mode_basic"
    /\ f8.at = "idle"
    /\ f8' = [f8 EXCEPT !.at = "try"]
    /\ UNCHANGED <<wvars, elements, backyards_with_position, names, page, run>>

\* driver.execute_script('mobile: setAppearance', {'style': 'dark'}): the
\* command is sent; it takes effect, or the backend raises (and the
\* appearance is the old or the new one).
F8SetDark ==
    /\ f8.at = "try" /\ f8.step = 0
    /\ \/ f8' = [f8 EXCEPT !.log = Append(@, "dark"), !.appearance = "dark",
                            !.step = 1]
       \/ \E style \in {f8.appearance, "dark"} :
             f8' = [f8 EXCEPT !.log = Append(@, "dark"), !.outcome = "error",
                              !.appearance = style, !.at = AfterTry("error")]
    /\ UNCHANGED <<wvars, elements, backyards_with_position, names, page, run>>

\* The next statement of the try block: it passes, its assertion fails
\* (AssertionError), or a helper raises.
F8Statement(r) ==
    /\ f8.at = "try" /\ f8.step >= 1
    /\ IF r = "passed"
       THEN IF f8.step < Len(F8Body)
            THEN f8' = [f8 EXCEPT !.step = @ + 1]
            ELSE f8' = [f8 EXCEPT !.outcome = "passed", !.at = AfterTry("passed")]
       ELSE f8' = [f8 EXCEPT !.outcome = r, !.at = AfterTry(r)]
    /\ UNCHANGED <<wvars, elements, backyards_with_position, names, page, run>>

\* finally: driver.execute_script('mobile: setAppearance', {'style':
\* 'light'}): sent; it takes effect, or raises and the body ends in that error.
F8Finally ==
    /\ f8.at = "finally"
    /\ \/ f8' = [f8 EXCEPT !.log = Append(@, "light"), !.appearance = "light",
                            !.at = "done"]
       \/ \E style \in {f8.appearance, "light"} :
             f8' = [f8 EXCEPT !.log = Append(@, "light"), !.outcome = "error",
                              !.appearance = style, !.at = "done"]
    /\ UNCHANGED <<wvars, elements, backyards_with_position, names, page, run>>

\* The body is over and the call phase with it: passed, or failed with the
\* AssertionError or exception that left the body.  The simulator keeps its
\* appearance.
F8Over ==
    /\ f8.at = "done" /\ run.phase = "call"
    /\ run' = [run EXCEPT !.phase = "report_call",
                          !.callr = IF f8.outcome = "passed" THEN "passed"
                                    ELSE "failed"]
    /\ f8' = [NoF8 EXCEPT !.appearance = f8.appearance]
    /\ UNCHANGED <<wvars, elements, backyards_with_position, names, page>>

NextF8 ==
    \/ StartTest("test_f8_dark_mode_basic", TRUE)
    \/ SetupPhase
    \/ F8Start
    \/ F8SetDark
    \/ \E r \in {"passed", "failed", "error"} : F8Statement(r)
    \/ F8Finally
    \/ F8Over
    \/ MakeReport
    \/ TeardownPhase

\* test_f8_dark_mode_basic run by pytest (more than once), every statement of
\* its body being able to fail.
SpecF8 == Init /\ [][NextF8]_vars

\* --------------------------------------------------- get_backyard_names
Labels == {"Bird Springs", "Feathered Friends"}
Ys == 0..MaxY

\* What find_elements may return for the name locator: every match set of up
\* to MaxLen elements, in every order.
MatchSets == UNION {[1..n -> [label : Labels, y : Ys]] : n \in 0..MaxLen}

ReadCells_OnePerRow(els) ==
    LET first == {i \in 1..Len(els) : \A j \in 1..(i - 1) : els[j].y # els[i].y}
    IN [i \in 1..Cardinality(first) |->
          LET k == CHOOSE k \in first : Cardinality({j \in first : j <= k}) = i
          IN <<els[k].y, els[k].label>>]

\* for el in elements: backyards_with_position.append((y_pos, name))
ReadCells(els) == [i \in 1..Len(els) |-> <<els[i].y, els[i].label>>]

InsertByY_BeforeTies(x, s) ==
    LET k == Cardinality({i \in 1..Len(s) : s[i][1] < x[1]})
    IN SubSeq(s, 1, k) \o <<x>> \o SubSeq(s, k + 1, Len(s))

\* One step of list.sort(key=lambda x: x[0]): x goes into the sorted list s
\* behind every entry whose key is <= its own (the sort compares keys only,
\* and is stable).
InsertByY(x, s) ==
    LET k == Cardinality({i \in 1..Len(s) : s[i][1] <= x[1]})
    IN SubSeq(s, 1, k) \o <<x>> \o SubSeq(s, k + 1, Len(s))

SortByY_BackendOrder(s) == s

\* backyards_with_position.sort(key=lambda x: x[0])
RECURSIVE SortByY(_)
SortByY(s) ==
    IF s = <<>> THEN <<>>
    ELSE InsertByY(s[Len(s)], SortByY(SubSeq(s, 1, Len(s) - 1)))

\* return [name for (y, name) in backyards_with_position]
NamesOf(pairs) == [i \in 1..Len(pairs) |-> pairs[i][2]]

\* One call of get_backyard_names on the match set as it stands:
\* get_elements raises TimeoutException when nothing matches; otherwise the
\* labels and positions are read, sorted by position, and the names returned.
GetBackyardNames ==
    /\ names.kind = "none"
    /\ IF elements = <<>>
       THEN /\ names' = [kind |-> "raise", list |-> <<>>]
            /\ UNCHANGED backyards_with_position
       ELSE /\ backyards_with_position' = SortByY(ReadCells(elements))
            /\ names' = [kind |-> "return",
                         list |-> NamesOf(backyards_with_position')]
    /\ UNCHANGED elements
    /\ UNCHANGED <<wvars, page, run, f8>>

\* The test goes on (scrolls, searches): the list is laid out anew.
Relayout ==
    /\ names.kind # "none"
    /\ elements' \in MatchSets
    /\ backyards_with_position' = <<>>
    /\ names' = NoNames
    /\ UNCHANGED <<wvars, page, run, f8>>

InitNames ==
    /\ ui = NoMatch /\ now = 0 /\ call = NoCall /\ pc = "idle"
    /\ frames = <<>> /\ slp = 0 /\ result = NoResult /\ el = 0
    /\ resolved = FALSE /\ cmds = <<>> /\ ev = NoEv /\ hist = NoHist
    /\ elements \in MatchSets
    /\ backyards_with_position = <<>>
    /\ names = NoNames
    /\ page = NoPage
    /\ run = NoRun
    /\ f8 = NoF8

NextNames ==
    \/ GetBackyardNames
    \/ Relayout

\* get_backyard_names over every match set in every backend order.
SpecNames == InitNames /\ [][NextNames]_vars

\* ------------------------------------------------------------------ claims
\* The helpers that wait with a timeout.
WaitOps == BaseOps \cup CountOps \cup ValueOps

Timeout == Raise("TimeoutException")

\* C1: is_element_visible is the non-raising probe: it always returns a
\* boolean, True exactly when its wait resolved the element (so True when the
\* element became visible within the timeout and stayed so) and False when
\* the wait timed out; it never ends in TimeoutException.
C1_VisibleProbe ==
    (pc = "done" /\ call.op = "is_element_visible") =>
        /\ result.kind = "return" /\ result.type = "bool"
        /\ (result.val = 1 <=> resolved)
        /\ (hist.held >= 0 /\ hist.inT => result.val = 1)
        /\ (~hist.ever => result.val = 0)

\* A probe that timed out after polling more than once.
C1_Witness ==
    /\ pc = "done" /\ call.op = "is_element_visible"
    /\ ~resolved /\ result = RetBool(FALSE) /\ ev.n >= 2

\* C2: wait_for_element, wait_for_element_clickable and get_elements raise
\* TimeoutException when their condition never holds within the timeout, and
\* return (the element resolved by the poll, or the list of matches) whenever
\* the condition held at a poll; they end no other way.
C2_RaisingWaits ==
    (pc = "done" /\ call.op \in {"wait_for_element", "wait_for_element_clickable",
                                  "get_elements"}) =>
        /\ (~hist.ever => result = Timeout)
        /\ (resolved <=> result.kind = "return")
        /\ (~resolved <=> result = Timeout)
        /\ (result.kind = "return" =>
              IF call.op = "get_elements" THEN result.type = "list"
              ELSE result = RetElem(el) /\ el \in ElemIds)

\* A raising wait that resolved its element on a later poll.
C2_Witness ==
    /\ pc = "done" /\ call.op = "wait_for_element_clickable"
    /\ result.kind = "return" /\ ev.n >= 2

\* C3: tap sends click exactly once, to the element its clickable-wait
\* resolved, and only once that wait has succeeded.
C3_TapClicksOnce ==
    /\ Len(cmds) <= 1
    /\ \A i \in 1..Len(cmds) :
          /\ call.op = "tap" /\ resolved
          /\ cmds[i].cmd = "click" /\ cmds[i].el = el /\ el \in ElemIds
    /\ (pc = "done" /\ call.op = "tap" /\ resolved) => Len(cmds) = 1

\* A tap whose wait resolved on a later poll and whose click was sent.
C3_Witness ==
    /\ pc = "done" /\ call.op = "tap" /\ resolved /\ Len(cmds) = 1 /\ now > 0

\* C4: when tap's clickable-wait times out, tap raises TimeoutException and
\* no command has been sent to the backend.
C4_TapTimeout ==
    (pc = "done" /\ call.op = "tap" /\ ~resolved) =>
        result = Timeout /\ cmds = <<>>

\* A tap that timed out.
C4_Witness ==
    pc = "done" /\ call.op = "tap" /\ ~resolved /\ now > 0

\* C5: for every wait helper called with a timeout T >= one poll interval: if
\* the condition began to hold at a time t <= T and has held since, the wait
\* is over by t + interval (hist.held, the time since t, is at most the
\* interval while the wait runs and when it ends), and it ended in success
\* (unless the backend failed with an error of its own).
C5_SuccessWithinInterval ==
    (call.op \in WaitOps /\ Asked(call) >= PollTicks /\ hist.held >= 0 /\ hist.inT) =>
        /\ hist.held <= PollTicks
        /\ (pc \in {"act", "done"} => resolved \/ (result.kind = "raise" /\ result # Timeout))

\* The same for the helpers whose condition is a single query.
C5_DirectWaits ==
    Direct(OpCond(call.op)) => C5_SuccessWithinInterval

\* C6: for every timeout T passed: if the condition never holds,
\* is_element_visible and get_element_count(wait=True) return False / 0, and
\* wait_for_element, wait_for_element_clickable and wait_for_backyard_count
\* raise TimeoutException, at an elapsed time in [T, T + interval].
C6_TimeoutWindow ==
    (/\ pc = "done" /\ call.timeout # NoTimeout /\ ~hist.ever
     /\ call.op \in {"is_element_visible", "get_element_count", "wait_for_element",
                     "wait_for_element_clickable", "wait_for_backyard_count"}) =>
        /\ result = CASE call.op = "is_element_visible" -> RetBool(FALSE)
                      [] call.op = "get_element_count" -> RetInt(0)
                      [] OTHER -> Timeout
        /\ now >= call.timeout
        /\ now <= call.timeout + PollTicks

\* The same for the timeouts other than 0.
C6_PositiveTimeouts ==
    call.timeout # 0 => C6_TimeoutWindow

\* C7: wait_for_bird_count is over by timeout + one poll interval: it raises
\* TimeoutException by then if the count never matched, and never returns
\* True later.
C7_BirdCountBounded ==
    (pc = "done" /\ call.op = "wait_for_bird_count") =>
        /\ now <= Asked(call) + PollTicks
        /\ (~hist.ever => result = Timeout)

\* C8: wait_for_backyard_count returns True on the first poll that observes
\* expected_count cells: the poll it returns on observed expected_count, and
\* no poll before it did (the wait goes on only after a poll that observed
\* another count).
C8_FirstMatchingPoll ==
    call.op = "wait_for_backyard_count" =>
        /\ (pc = "done" /\ result.kind = "return") =>
              result = RetBool(TRUE) /\ ev.obs = call.expected
        /\ (pc = "done" /\ result.kind = "raise") => ev.obs # call.expected
        /\ (pc \in {"poll", "sleep"} /\ ev.n > 0) => ev.obs # call.expected

\* The wait for MaxCount cells returned True on its third poll.
C8_Witness ==
    /\ pc = "done" /\ call.op = "wait_for_backyard_count"
    /\ call.expected = MaxCount /\ result = RetBool(TRUE) /\ ev.n = 3

\* C9: every evaluation of a poll loop's condition issues exactly one query
\* and does not wait.
C9_OneQueryPerEvaluation ==
    /\ ev.q <= 1
    /\ ~ev.slept
    /\ (ev.n > 0 => ev.q = 1)

\* The same for the conditions of BasePage and wait_for_backyard_count.
C9_DirectConditions ==
    Direct(OpCond(call.op)) => C9_OneQueryPerEvaluation

\* C10: wait_for_element, wait_for_element_clickable,
\* wait_for_element_invisible, get_elements, tap and get_text wait with the
\* caller's timeout whenever one is passed, 0 included, and with
\* DEFAULT_TIMEOUT only when none is passed.
C10_SuppliedTimeoutUsed ==
    (/\ call.op \in {"wait_for_element", "wait_for_element_clickable",
                     "wait_for_element_invisible", "get_elements", "tap", "get_text"}
     /\ Len(frames) >= 1) =>
        frames[1].timeout = IF call.timeout = NoTimeout THEN Secs(DEFAULT_TIMEOUT)
                            ELSE call.timeout

\* The same for the timeouts other than 0.
C10_PositiveTimeouts ==
    call.timeout # 0 => C10_SuppliedTimeoutUsed

\* C11: a backend error other than a wait timeout leaves every helper
\* unmodified: once a query of the call has failed with WebDriverException,
\* the call is over and WebDriverException is what it raised (no helper turns
\* the failure into a boolean or a count, or goes on polling).
C11_ErrorsPassThrough ==
    ev.fault => pc = "done" /\ result = BackendError

\* The same for the helpers other than wait_for_bird_count.
C11_OtherHelpers ==
    call.op # "wait_for_bird_count" => C11_ErrorsPassThrough

\* The labels of the elements of els that lie at position y, in els' order.
LabelsAt(els, y) ==
    LET at == SelectSeq(els, LAMBDA e : e.y = y)
    IN [i \in 1..Len(at) |-> at[i].label]

\* The names of the sorted pairs that lie at position y, in returned order.
ReturnedAt(pairs, y) ==
    LET at == SelectSeq(pairs, LAMBDA p : p[1] = y)
    IN [i \in 1..Len(at) |-> at[i][2]]

\* How often label l occurs in a list of names.
Occurs(l, list) == Cardinality({i \in 1..Len(list) : list[i] = l})

\* C12: the names get_backyard_names returns are those of the sorted
\* (y_pos, name) list, whose y positions are non-decreasing along the list, for
\* every match set and backend order.
C12_NamesOrderedByY ==
    names.kind = "return" =>
        /\ names.list = NamesOf(backyards_with_position)
        /\ \A i \in 1..(Len(backyards_with_position) - 1) :
              backyards_with_position[i][1] <= backyards_with_position[i + 1][1]
        /\ \A i \in 1..Len(backyards_with_position) :
              \E j \in 1..Len(elements) :
                  backyards_with_position[i] = <<elements[j].y, elements[j].label>>

\* A returned list whose backend order was not the display order.
C12_Witness ==
    /\ names.kind = "return" /\ Len(elements) = MaxLen
    /\ \E i \in 1..(Len(elements) - 1) : elements[i].y > elements[i + 1].y

\* C13: the sort is on y only and stable: the names returned for the
\* elements of one y position are those elements' labels in the order the
\* backend returned them, whatever the labels are.
C13_StableOnY ==
    names.kind = "return" =>
        \A y \in Ys : ReturnedAt(backyards_with_position, y) = LabelsAt(elements, y)

\* Two elements of equal y whose labels are in descending order, with an
\* element of a lower y behind them in backend order.
C13_Witness ==
    /\ names.kind = "return"
    /\ \E i, j, k \in 1..Len(elements) :
          /\ i < j /\ j < k
          /\ elements[i].y = elements[j].y
          /\ elements[i].label = "Feathered Friends"
          /\ elements[j].label = "Bird Springs"
          /\ elements[k].y < elements[i].y

\* C14: get_backyard_names returns one name per element of the match set:
\* as many names as elements, and every label as often as it occurs among
\* the elements.
C14_OneNamePerElement ==
    names.kind = "return" =>
        /\ Len(names.list) = Len(elements)
        /\ \A l \in Labels :
              Occurs(l, names.list) = Occurs(l, [i \in 1..Len(elements) |-> elements[i].label])

\* A match set with a repeated label and a repeated y.
C14_Witness ==
    /\ names.kind = "return" /\ Len(elements) = MaxLen
    /\ \E i, j \in 1..Len(elements) :
          i # j /\ elements[i].label = elements[j].label /\ elements[i].y = elements[j].y

\* C15: wait_for_element_invisible returns a true value when the element
\* disappeared within the timeout and False when it stayed visible for the
\* whole timeout; it does not raise.
C15_InvisibleReturnsBool ==
    (pc = "done" /\ call.op = "wait_for_element_invisible") =>
        IF resolved THEN result.kind = "return" /\ result # RetBool(FALSE)
        ELSE result = RetBool(FALSE)

\* C16 as claimed: whenever get_elements returns normally, the list it returns
\* is not empty, for every interleaving of UI changes with the call.
C16_NeverEmpty ==
    (pc = "done" /\ call.op = "get_elements" /\ result.kind = "return") =>
        result.val >= 1

\* C16, amended: whenever get_elements returns normally, it returns the list
\* of the elements that match at its find_elements query, made after the
\* presence wait succeeded; the list is not empty unless the UI changed
\* between the wait's last poll and that query.
C16_ListOfTheQuery ==
    (pc = "done" /\ call.op = "get_elements" /\ result.kind = "return") =>
        /\ resolved
        /\ result = RetList(ui.n)
        /\ (~ev.raced => result.val >= 1)

\* The match set emptied between the wait and the query: an empty list.
C16_Witness ==
    /\ pc = "done" /\ call.op = "get_elements" /\ resolved
    /\ ev.raced /\ result = RetList(0)

\* C17: get_element_count(wait=False) returns the number of elements matching
\* at its one query, 0 when nothing matches, without polling or sleeping,
\* whatever timeout is passed; it never raises TimeoutException.
C17_NoWaitCount ==
    (pc = "done" /\ call.op = "get_element_count_nowait") =>
        /\ result = RetInt(ui.n)
        /\ now = 0 /\ ev.q = 1 /\ ev.n = 0 /\ ~ev.slept

\* The count of an empty match set.
C17_Witness ==
    /\ pc = "done" /\ call.op = "get_element_count_nowait"
    /\ ui.n = 0 /\ result = RetInt(0)

\* C18: get_element_count(wait=True) always returns a count: 0 when no
\* element was present at any poll within the timeout (never a
\* TimeoutException), and otherwise the number of elements matching at its
\* find_elements query.
C18_CountOrZero ==
    (pc = "done" /\ call.op = "get_element_count") =>
        /\ result.kind = "return" /\ result.type = "int"
        /\ (~hist.ever => ~resolved)
        /\ (~resolved => result = RetInt(0))
        /\ (resolved => result = RetInt(ui.n))

\* A count that timed out after polling, and is 0.
C18_Witness ==
    /\ pc = "done" /\ call.op = "get_element_count"
    /\ ~resolved /\ ~hist.ever /\ now > 0 /\ result = RetInt(0)

\* C19: while the element has been visible ever since is_element_visible was
\* called, the call never sleeps (no time passes), and it returns True from
\* its first evaluation; is_element_visible sends no command at all.  A call
\* leaves no state behind (Return), so this holds for each of any number of
\* consecutive calls.
C19_ProbeIdempotent ==
    call.op = "is_element_visible" =>
        /\ cmds = <<>>
        /\ ~hist.broke =>
              /\ pc \in {"poll", "done"} /\ now = 0
              /\ pc = "done" => result = RetBool(TRUE) /\ ev.n = 1 /\ ev.q = 1

\* A probe of an element visible throughout, returned.
C19_Witness ==
    /\ pc = "done" /\ call.op = "is_element_visible" /\ ~hist.broke
    /\ result = RetBool(TRUE) /\ now = 0

\* C20: every wait the page objects and tests start has a timeout of at
\* least its poll interval: each WebDriverWait in progress, a helper's own or
\* the one inside a condition, was created with timeout >= 0.5 s.
C20_PollWithinTimeout ==
    \A i \in 1..Len(frames) : frames[i].timeout >= PollTicks

\* The shortest wait of the repository, is_element_visible(timeout=1),
\* sleeping between polls.
C20_Witness ==
    /\ pc = "sleep" /\ call.op = "is_element_visible"
    /\ Len(frames) = 1 /\ frames[1].timeout = Secs(1)

\* The element scroll_to_element looks for is displayed on the screen.
Displayed == ui.n > 0 /\ ui.st # "hidden"

\* C21: scroll_to_element raises TimeoutException only if the element is not
\* visible on the screen it has scrolled to (after k <= max_scrolls swipes);
\* when the element is visible there, it returns the element.
C21_ScrollFinds ==
    (page.op = "scroll_to_element" /\ page.st = "done") =>
        /\ page.res.kind = "return" => page.res.type = "element"
        /\ page.res = Timeout => ~Displayed

\* The same, but for the screen reached by the last of max_scrolls swipes
\* (and for max_scrolls = 0).
C21_BeforeLastSwipe ==
    (page.op = "scroll_to_element" /\ page.scrolls < page.arg) => C21_ScrollFinds

\* C22: no wait busy-loops, so the queries one wait's poll loop issues are
\* bounded by the timeout the wait was created with: at most
\* timeout / interval + 1, the poll that falls on or after the deadline
\* counted on top (queries answer at once here, so a poll may fall exactly on
\* the deadline).
C22_QueryVolume ==
    call.op \in WaitOps =>
        ev.total <= (WaitTimeout(call.op, call.timeout) \div PollTicks) + 2

\* The same for the waits whose condition is one query.
C22_DirectWaits ==
    Direct(OpCond(call.op)) => C22_QueryVolume

\* C23: each test that uses the driver fixture has a session of its own, open
\* while its body runs and quit once the test is over, whether the body
\* passed or failed; at most one session is open at any time; and every
\* session that is opened is eventually quit.
C23_SessionPerTest ==
    /\ [](/\ run.open <= 1
          /\ run.open = (IF run.session = "open" THEN 1 ELSE 0)
          /\ (run.phase \in {"call", "report_call"} /\ run.uses =>
                 run.session = "open")
          /\ (run.phase = "idle" => run.session # "open"))
    /\ (run.session = "open" ~> run.session = "quit")

\* The last test of the run failed in its body and its session was quit.
C23_Witness ==
    /\ run.k = MaxTests /\ run.phase = "report_teardown"
    /\ run.callr = "failed" /\ run.session = "quit" /\ run.open = 0

\* C24: a failure screenshot is taken exactly for a test that has the driver
\* and whose call phase failed, under the name <test name>_failure.png: once
\* the call phase is reported it exists for such a test, and it never exists
\* for a test that passed or skipped, whose setup failed (there is no call
\* phase then), whose teardown alone failed, or that has no driver.
C24_ScreenshotOnCallFailure ==
    /\ run.shot.taken =>
          /\ run.uses /\ run.setup = "passed" /\ run.callr = "failed"
          /\ run.shot.name = run.test /\ run.shot.suffix = "_failure.png"
    /\ (/\ run.phase \in {"teardown", "report_teardown", "idle"}
        /\ run.uses /\ run.callr = "failed") => run.shot.taken

\* A test whose body passed and whose teardown failed is over, without a
\* screenshot.
C24_Witness ==
    /\ run.phase = "idle" /\ run.uses /\ run.callr = "passed"
    /\ run.tear = "failed" /\ ~run.shot.taken

\* C25: the failure screenshot is taken while the test's session is open:
\* the session was open when it was saved, and by the time the fixture has
\* quit the session of a test whose body failed, the screenshot exists.
C25_ScreenshotBeforeQuit ==
    /\ run.shot.taken => run.shot.session = "open"
    /\ (run.session = "quit" /\ run.callr = "failed") => run.shot.taken

\* The session of a failed test has been quit after its screenshot was saved.
C25_Witness ==
    /\ run.shot.taken /\ run.shot.session = "open" /\ run.session = "quit"

C27_AppearanceRestored ==
    f8.at = "done" =>
        /\ run.session = "open"
        /\ f8.outcome \in {"passed", "failed", "error"}
        /\ f8.log # <<>> /\ f8.log[1] = "dark"
        /\ f8.log[Len(f8.log)] = "light"

\* The body ended on a failed assertion, dark having been set before.
C27_Witness ==
    /\ f8.at = "done" /\ f8.outcome = "failed"
    /\ f8.log = <<"dark", "light">> /\ f8.appearance = "light"

\* C28: tap_backyard_by_index(index), having found n cells, clicks the cell at
\* position index and nothing else when 0 <= index < n, and for every other
\* index raises IndexError and clicks nothing.
C28_IndexChecked ==
    (/\ page.op = "tap_backyard_by_index" /\ page.st = "done"
     /\ result.kind = "return") =>
        IF 0 <= page.arg /\ page.arg < result.val
        THEN /\ page.res = RetNone
             /\ Len(cmds) = 1 /\ cmds[1].cmd = "click" /\ cmds[1].el = page.arg
        ELSE /\ page.res = Raise("IndexError")
             /\ cmds = <<>>

\* The same for the indexes that are not negative.
C28_FromZero ==
    page.arg >= 0 => C28_IndexChecked

\* C29 as claimed: clear_search_text / close_search tap the button exactly
\* once whenever the 2 s visibility check found it, and return normally with
\* no command sent when the check did not find it.
C29_TappedWhenVisible ==
    (page.op \in SearchButtonOps /\ page.st = "done") =>
        IF call.op = "tap"
        THEN Len(cmds) = 1 /\ cmds[1].cmd = "click"
        ELSE page.res = RetNone /\ cmds = <<>>

\* C29, amended: when the 2 s visibility check does not find the button the
\* call returns normally with no command sent; when it finds it, tap is
\* called, which clicks the button exactly once if it is clickable within
\* tap's own wait, and otherwise raises TimeoutException with no command sent.
C29_ConditionalTap ==
    (page.op \in SearchButtonOps /\ page.st = "done") =>
        IF call.op = "tap"
        THEN /\ page.res = result
             /\ IF resolved
                THEN /\ Len(cmds) = 1 /\ cmds[1].cmd = "click" /\ cmds[1].el = el
                     /\ page.res.kind = "raise" => page.res # Timeout
                ELSE page.res = Timeout /\ cmds = <<>>
        ELSE /\ call.op = "is_element_visible" /\ result = RetBool(FALSE)
             /\ page.res = RetNone /\ cmds = <<>>

\* The button was found by the check and tapped once.
C29_Witness ==
    /\ page.op = "clear_search_text" /\ page.st = "done" /\ call.op = "tap"
    /\ page.res = RetNone /\ Len(cmds) = 1

====
